---------------------------- MODULE Spec2Model ----------------------------
(***************************************************************************)
(* A model of src/robots.cc: the robots.txt pattern matcher                *)
(* (RobotsMatchStrategy::Matches), the value canonicalizer                 *)
(* (MaybeEscapePattern), the key classifier (ParsedRobotsKey) and the      *)
(* matcher state machine (RobotsMatcher) driven by the events that         *)
(* RobotsTxtParser emits.                                                  *)
(*                                                                         *)
(* Byte strings are sequences of one-character strings, <<"/", "a">> for   *)
(* "/a".  A byte with the high bit set is written as a two-digit hex token *)
(* prefixed by "x", for example "xE9" for 0xE9.                            *)
(***************************************************************************)
EXTENDS Integers, Sequences, FiniteSets, TLC

(***************************************************************************)
(* Bounds of the model.                                                    *)
(***************************************************************************)
\* Longest path and longest pattern handed to Matches on its own.
MaxPathLen == 3
MaxPatLen == 3
\* Most lines of one robots.txt document.
MaxLines == 4

(***************************************************************************)
(* <cctype> on the bytes the model uses (robots.cc:156-175).  The vertical *)
(* tab, which isspace also accepts, is not among them.                     *)
(***************************************************************************)
LowerLetters == <<"a", "b", "c", "d", "e", "f", "g", "h", "i", "j", "k", "l", "m",
                  "n", "o", "p", "q", "r", "s", "t", "u", "v", "w", "x", "y", "z">>
UpperLetters == <<"A", "B", "C", "D", "E", "F", "G", "H", "I", "J", "K", "L", "M",
                  "N", "O", "P", "Q", "R", "S", "T", "U", "V", "W", "X", "Y", "Z">>
Digits == <<"0", "1", "2", "3", "4", "5", "6", "7", "8", "9">>

Range(s) == {s[i] : i \in 1..Len(s)}

IndexOf(s, c) == CHOOSE i \in 1..Len(s) : s[i] = c

LowerSet == Range(LowerLetters)
UpperSet == Range(UpperLetters)
AlphaSet == LowerSet \cup UpperSet
SpaceSet == {" ", "\t", "\n", "\r", "\f"}
XDigitSet == Range(Digits) \cup {"a", "b", "c", "d", "e", "f"}
                          \cup {"A", "B", "C", "D", "E", "F"}

AsciiIsAlpha(ch) == ch \in AlphaSet

AsciiIsSpace(ch) == ch \in SpaceSet

AsciiIsXDigit(ch) == ch \in XDigitSet

AsciiToLower(ch) ==
    IF ch \in UpperSet THEN LowerLetters[IndexOf(UpperLetters, ch)] ELSE ch

AsciiToUpper(ch) ==
    IF ch \in LowerSet THEN UpperLetters[IndexOf(LowerLetters, ch)] ELSE ch

\* boost::iequals and boost::(i)starts_with on byte strings.
ToLowerStr(s) == [i \in 1..Len(s) |-> AsciiToLower(s[i])]

iequals(a, b) == ToLowerStr(a) = ToLowerStr(b)

starts_with(s, prefix) ==
    /\ Len(s) >= Len(prefix)
    /\ SubSeq(s, 1, Len(prefix)) = prefix

istarts_with(s, prefix) == starts_with(ToLowerStr(s), ToLowerStr(prefix))

(***************************************************************************)
(* RobotsMatchStrategy::Matches (robots.cc:73-112).  The loop state is a   *)
(* record: pos is the FixedArray of pathlen + 1 slots, indexed from 0,     *)
(* with -1 standing for a slot never written; pat is the 1-based position  *)
(* of the pattern iterator; ret is "run" inside the loop and the returned  *)
(* value afterwards.                                                       *)
(***************************************************************************)
Uninit == -1

MatchesStart(path, pattern) ==
    [pos    |-> [i \in 0..Len(path) |-> IF i = 0 THEN 0 ELSE Uninit],
     numpos |-> 1,
     pat    |-> 1,
     ret    |-> IF Len(pattern) = 0 THEN "true" ELSE "run"]

\* The '*' branch: pos[i] = pos[i-1] + 1 for i in 1..numpos-1.
RECURSIVE StarFill(_, _, _)
StarFill(pos, i, numpos) ==
    IF i >= numpos THEN pos
    ELSE StarFill([pos EXCEPT ![i] = pos[i - 1] + 1], i + 1, numpos)

\* The literal branch: compacts pos in place, keeping the offsets that advance.
\* Returns <<pos, newnumpos>>.
RECURSIVE LiteralScan(_, _, _, _, _, _)
LiteralScan(pos, i, numpos, newnumpos, path, ch) ==
    IF i >= numpos THEN <<pos, newnumpos>>
    ELSE IF pos[i] < Len(path) /\ path[pos[i] + 1] = ch
         THEN LiteralScan([pos EXCEPT ![newnumpos] = pos[i] + 1],
                          i + 1, numpos, newnumpos + 1, path, ch)
         ELSE LiteralScan(pos, i + 1, numpos, newnumpos, path, ch)

\* Mutant of MatchesIter: '*' sets numpos to pathlen + 1 whatever pos[0] is.
MatchesIter_StarFullLength(st, path, pattern) ==
    LET pathlen == Len(path)
        ch      == pattern[st.pat]
        next(s) == [s EXCEPT !.pat = st.pat + 1,
                             !.ret = IF st.pat + 1 > Len(pattern) THEN "true" ELSE "run"]
    IN  IF ch = "$" /\ st.pat = Len(pattern)
        THEN [st EXCEPT !.ret = IF st.pos[st.numpos - 1] = pathlen
                                THEN "true" ELSE "false"]
        ELSE IF ch = "*"
        THEN LET numpos == pathlen + 1
             IN  next([st EXCEPT !.numpos = numpos,
                                 !.pos = StarFill(st.pos, 1, numpos)])
        ELSE LET r == LiteralScan(st.pos, 0, st.numpos, 0, path, ch)
             IN  IF r[2] = 0
                 THEN [st EXCEPT !.pos = r[1], !.numpos = 0, !.ret = "false"]
                 ELSE next([st EXCEPT !.pos = r[1], !.numpos = r[2]])

\* Mutant of MatchesIter: every '$' is taken as the end anchor, the test
\* pat + 1 == pattern.end() is missing.
MatchesIter_DollarAnywhere(st, path, pattern) ==
    LET pathlen == Len(path)
        ch      == pattern[st.pat]
        next(s) == [s EXCEPT !.pat = st.pat + 1,
                             !.ret = IF st.pat + 1 > Len(pattern) THEN "true" ELSE "run"]
    IN  IF ch = "$"
        THEN [st EXCEPT !.ret = IF st.pos[st.numpos - 1] = pathlen
                                THEN "true" ELSE "false"]
        ELSE IF ch = "*"
        THEN LET numpos == pathlen - st.pos[0] + 1
             IN  next([st EXCEPT !.numpos = numpos,
                                 !.pos = StarFill(st.pos, 1, numpos)])
        ELSE LET r == LiteralScan(st.pos, 0, st.numpos, 0, path, ch)
             IN  IF r[2] = 0
                 THEN [st EXCEPT !.pos = r[1], !.numpos = 0, !.ret = "false"]
                 ELSE next([st EXCEPT !.pos = r[1], !.numpos = r[2]])

\* One iteration of the for loop over the pattern, including the ++pat and the
\* loop test that follow it.
MatchesIter(st, path, pattern) ==
    LET pathlen == Len(path)
        ch      == pattern[st.pat]
        next(s) == [s EXCEPT !.pat = st.pat + 1,
                             !.ret = IF st.pat + 1 > Len(pattern) THEN "true" ELSE "run"]
    IN  IF ch = "$" /\ st.pat = Len(pattern)
        THEN [st EXCEPT !.ret = IF st.pos[st.numpos - 1] = pathlen
                                THEN "true" ELSE "false"]
        ELSE IF ch = "*"
        THEN LET numpos == pathlen - st.pos[0] + 1
             IN  next([st EXCEPT !.numpos = numpos,
                                 !.pos = StarFill(st.pos, 1, numpos)])
        ELSE LET r == LiteralScan(st.pos, 0, st.numpos, 0, path, ch)
             IN  IF r[2] = 0
                 THEN [st EXCEPT !.pos = r[1], !.numpos = 0, !.ret = "false"]
                 ELSE next([st EXCEPT !.pos = r[1], !.numpos = r[2]])

RECURSIVE MatchesLoop(_, _, _)
MatchesLoop(st, path, pattern) ==
    IF st.ret # "run" THEN st
    ELSE MatchesLoop(MatchesIter(st, path, pattern), path, pattern)

Matches(path, pattern) ==
    MatchesLoop(MatchesStart(path, pattern), path, pattern).ret = "true"

\* LongestMatchRobotsMatchStrategy (robots.cc:691-699).
MatchAllow(path, pattern) == IF Matches(path, pattern) THEN Len(pattern) ELSE -1

\* Mutant of MatchDisallow: the empty pattern does not match.
MatchDisallow_EmptyNeverMatches(path, pattern) ==
    IF pattern # <<>> /\ Matches(path, pattern) THEN Len(pattern) ELSE -1

MatchDisallow(path, pattern) == IF Matches(path, pattern) THEN Len(pattern) ELSE -1

(***************************************************************************)
(* MaybeEscapePattern (robots.cc:185-231).  src is NUL-terminated: reading *)
(* one past its last byte yields NUL.                                      *)
(***************************************************************************)
NUL == "\\0"

\* Mutant of kHexDigits: lower-case digits.
kHexDigits_LowerCase == <<"0", "1", "2", "3", "4", "5", "6", "7", "8", "9",
                          "a", "b", "c", "d", "e", "f">>

kHexDigits == <<"0", "1", "2", "3", "4", "5", "6", "7", "8", "9",
                "A", "B", "C", "D", "E", "F">>

\* The bytes >= 0x80 of the model, with their values.
HighByteValue ==
    [b \in {"xC3", "xA9", "xEF", "xBB", "xBF"} |->
        CASE b = "xC3" -> 195
          [] b = "xA9" -> 169
          [] b = "xEF" -> 239
          [] b = "xBB" -> 187
          [] b = "xBF" -> 191]

HighBit(ch) == ch \in DOMAIN HighByteValue

CharAt(src, i) == IF i <= Len(src) THEN src[i] ELSE NUL

IsEscapeAt(src, i) ==
    /\ CharAt(src, i) = "%"
    /\ AsciiIsXDigit(CharAt(src, i + 1))
    /\ AsciiIsXDigit(CharAt(src, i + 2))

\* First loop: <<num_to_escape, need_capitalize>>.
RECURSIVE EscapeScan(_, _, _, _)
EscapeScan(src, i, num_to_escape, need_capitalize) ==
    IF CharAt(src, i) = NUL THEN <<num_to_escape, need_capitalize>>
    ELSE IF IsEscapeAt(src, i)
         THEN EscapeScan(src, i + 3, num_to_escape,
                         need_capitalize
                           \/ AsciiToLower(CharAt(src, i + 1)) # NUL
                           \/ AsciiToLower(CharAt(src, i + 2)) # NUL)
         ELSE IF HighBit(src[i])
              THEN EscapeScan(src, i + 1, num_to_escape + 1, need_capitalize)
              ELSE EscapeScan(src, i + 1, num_to_escape, need_capitalize)

\* Second loop: the bytes written to *dst.
RECURSIVE EscapeCopy(_, _)
EscapeCopy(src, i) ==
    IF CharAt(src, i) = NUL THEN <<>>
    ELSE IF IsEscapeAt(src, i)
         THEN <<src[i], AsciiToUpper(src[i + 1]), AsciiToUpper(src[i + 2])>>
                \o EscapeCopy(src, i + 3)
         ELSE IF HighBit(src[i])
              THEN <<"%", kHexDigits[((HighByteValue[src[i]] \div 16) % 16) + 1],
                          kHexDigits[(HighByteValue[src[i]] % 16) + 1]>>
                     \o EscapeCopy(src, i + 1)
              ELSE <<src[i]>> \o EscapeCopy(src, i + 1)

\* allocated is the returned bool; dst the string *dst points at on return.
MaybeEscapePattern(src) ==
    LET scan == EscapeScan(src, 1, 0, FALSE)
    IN  IF scan[1] = 0 /\ ~scan[2]
        THEN [allocated |-> FALSE, dst |-> src]
        ELSE [allocated |-> TRUE, dst |-> EscapeCopy(src, 1)]

(***************************************************************************)
(* ParsedRobotsKey (robots.cc:714-768).                                    *)
(***************************************************************************)
kAllowFrequentTypos == TRUE

KeyIsUserAgent(key) ==
    \/ istarts_with(key, <<"u", "s", "e", "r", "-", "a", "g", "e", "n", "t">>)
    \/ /\ kAllowFrequentTypos
       /\ \/ istarts_with(key, <<"u", "s", "e", "r", "a", "g", "e", "n", "t">>)
          \/ istarts_with(key, <<"u", "s", "e", "r", " ", "a", "g", "e", "n", "t">>)

KeyIsAllow(key) == istarts_with(key, <<"a", "l", "l", "o", "w">>)

KeyIsDisallow(key) ==
    \/ istarts_with(key, <<"d", "i", "s", "a", "l", "l", "o", "w">>)
    \/ /\ kAllowFrequentTypos
       /\ \/ istarts_with(key, <<"d", "i", "s", "s", "a", "l", "l", "o", "w">>)
          \/ istarts_with(key, <<"d", "i", "s", "s", "a", "l", "o", "w">>)
          \/ istarts_with(key, <<"d", "i", "s", "a", "l", "o", "w">>)
          \/ istarts_with(key, <<"d", "i", "a", "s", "l", "l", "o", "w">>)
          \/ istarts_with(key, <<"d", "i", "s", "a", "l", "l", "a", "w">>)

KeyIsSitemap(key) ==
    \/ istarts_with(key, <<"s", "i", "t", "e", "m", "a", "p">>)
    \/ istarts_with(key, <<"s", "i", "t", "e", "-", "m", "a", "p">>)

KeyIsCrawlDelay(key) ==
    \/ istarts_with(key, <<"c", "r", "a", "w", "l", "-", "d", "e", "l", "a", "y">>)
    \/ /\ kAllowFrequentTypos
       /\ \/ istarts_with(key, <<"c", "r", "a", "w", "l", "d", "e", "l", "a", "y">>)
          \/ istarts_with(key, <<"c", "r", "a", "w", "l", " ", "d", "e", "l", "a", "y">>)

\* ParsedRobotsKey::Parse: the type_ it leaves.  The fifth test repeats
\* KeyIsSitemap (robots.cc:724).
KeyParse(key) ==
    IF KeyIsUserAgent(key) THEN "USER_AGENT"
    ELSE IF KeyIsAllow(key) THEN "ALLOW"
    ELSE IF KeyIsDisallow(key) THEN "DISALLOW"
    ELSE IF KeyIsSitemap(key) THEN "SITEMAP"
    ELSE IF KeyIsSitemap(key) THEN "CRAWL_DELAY"
    ELSE "UNKNOWN"

NeedEscapeValueForKey(type) == type \notin {"USER_AGENT", "SITEMAP"}

(***************************************************************************)
(* RobotsMatcher (robots.cc:504-712).  The object is a record of its       *)
(* members.  Match, MatchHierarchy and seen_any_agent are declared in      *)
(* robots.h.                                                               *)
(***************************************************************************)
kNoMatchPriority == -1

\* Match::Match() and Match::Clear(): "no match".
NoMatch == [priority |-> kNoMatchPriority, line |-> 0]

\* Match::Set.
MatchSet(priority, line) == [priority |-> priority, line |-> line]

\* MatchHierarchy::Clear.
HierarchyClear == [global |-> NoMatch, specific |-> NoMatch]

\* Match::HigherPriorityMatch(a, b).
HigherPriorityMatch(a, b) == IF a.priority >= b.priority THEN a ELSE b

\* RobotsMatcher::RobotsMatcher.
NewMatcher ==
    [allow_                    |-> HierarchyClear,
     disallow_                 |-> HierarchyClear,
     seen_global_agent_        |-> FALSE,
     seen_specific_agent_      |-> FALSE,
     ever_seen_specific_agent_ |-> FALSE,
     seen_separator_           |-> FALSE,
     path_                     |-> <<>>,
     user_agents_              |-> <<>>]

InitUserAgentsAndPath(m, user_agents, path) ==
    [m EXCEPT !.path_ = path, !.user_agents_ = user_agents]

seen_any_agent(m) == m.seen_global_agent_ \/ m.seen_specific_agent_

\* Mutant of disallow: the test of ever_seen_specific_agent_ is missing.
disallow_NoStickyTest(m) ==
    IF m.allow_.specific.priority > 0 \/ m.disallow_.specific.priority > 0
    THEN m.disallow_.specific.priority > m.allow_.specific.priority
    ELSE IF m.disallow_.global.priority > 0 \/ m.allow_.global.priority > 0
    THEN m.disallow_.global.priority > m.allow_.global.priority
    ELSE FALSE

\* Mutant of disallow: >= for >, an equal priority disallows.
disallow_TieDisallows(m) ==
    IF m.allow_.specific.priority > 0 \/ m.disallow_.specific.priority > 0
    THEN m.disallow_.specific.priority >= m.allow_.specific.priority
    ELSE IF m.ever_seen_specific_agent_
    THEN FALSE
    ELSE IF m.disallow_.global.priority > 0 \/ m.allow_.global.priority > 0
    THEN m.disallow_.global.priority >= m.allow_.global.priority
    ELSE FALSE

disallow(m) ==
    IF m.allow_.specific.priority > 0 \/ m.disallow_.specific.priority > 0
    THEN m.disallow_.specific.priority > m.allow_.specific.priority
    ELSE IF m.ever_seen_specific_agent_
    THEN FALSE
    ELSE IF m.disallow_.global.priority > 0 \/ m.allow_.global.priority > 0
    THEN m.disallow_.global.priority > m.allow_.global.priority
    ELSE FALSE

disallow_ignore_global(m) ==
    IF m.allow_.specific.priority > 0 \/ m.disallow_.specific.priority > 0
    THEN m.disallow_.specific.priority > m.allow_.specific.priority
    ELSE FALSE

\* Mutant of matching_line: the records are chosen by the group that is open,
\* seen_specific_agent_, not by ever_seen_specific_agent_.
matching_line_OpenGroup(m) ==
    IF m.seen_specific_agent_
    THEN HigherPriorityMatch(m.disallow_.specific, m.allow_.specific).line
    ELSE HigherPriorityMatch(m.disallow_.global, m.allow_.global).line

\* Mutant of matching_line: the line of the allow record is reported whenever
\* an Allow matched.
matching_line_AllowLine(m) ==
    IF m.ever_seen_specific_agent_
    THEN (IF m.allow_.specific.priority >= 0
          THEN m.allow_.specific.line ELSE m.disallow_.specific.line)
    ELSE (IF m.allow_.global.priority >= 0
          THEN m.allow_.global.line ELSE m.disallow_.global.line)

matching_line(m) ==
    IF m.ever_seen_specific_agent_
    THEN HigherPriorityMatch(m.disallow_.specific, m.allow_.specific).line
    ELSE HigherPriorityMatch(m.disallow_.global, m.allow_.global).line

\* Mutant of HandleRobotsStart: ever_seen_specific_agent_ is not reset.
HandleRobotsStart_KeepsSticky(m) ==
    [m EXCEPT !.allow_               = HierarchyClear,
              !.disallow_            = HierarchyClear,
              !.seen_global_agent_   = FALSE,
              !.seen_specific_agent_ = FALSE,
              !.seen_separator_      = FALSE]

HandleRobotsStart(m) ==
    [m EXCEPT !.allow_                    = HierarchyClear,
              !.disallow_                 = HierarchyClear,
              !.seen_global_agent_        = FALSE,
              !.seen_specific_agent_      = FALSE,
              !.ever_seen_specific_agent_ = FALSE,
              !.seen_separator_           = FALSE]

HandleRobotsEnd(m) == m

\* The longest prefix of user_agent made of [a-zA-Z_-].
RECURSIVE ExtractLen(_, _)
ExtractLen(user_agent, n) ==
    IF AsciiIsAlpha(CharAt(user_agent, n + 1)) \/ CharAt(user_agent, n + 1) \in {"-", "_"}
    THEN ExtractLen(user_agent, n + 1)
    ELSE n

ExtractUserAgent(user_agent) == SubSeq(user_agent, 1, ExtractLen(user_agent, 0))

IsValidUserAgentToObey(user_agent) ==
    Len(user_agent) > 0 /\ ExtractUserAgent(user_agent) = user_agent

\* The "Google-specific optimization" test of HandleUserAgent.
IsGlobalAgent(user_agent) ==
    /\ Len(user_agent) >= 1
    /\ user_agent[1] = "*"
    /\ (Len(user_agent) = 1 \/ AsciiIsSpace(user_agent[2]))

\* The loop over *user_agents_ of HandleUserAgent.
IsSpecificAgent(m, user_agent) ==
    \E k \in 1..Len(m.user_agents_) :
        iequals(ExtractUserAgent(user_agent), m.user_agents_[k])

\* Mutant of HandleUserAgent: a new group also clears ever_seen_specific_agent_.
HandleUserAgent_ClearsSticky(m, line_num, user_agent) ==
    LET m1 == IF m.seen_separator_
              THEN [m EXCEPT !.seen_specific_agent_      = FALSE,
                             !.ever_seen_specific_agent_ = FALSE,
                             !.seen_global_agent_        = FALSE,
                             !.seen_separator_           = FALSE]
              ELSE m
    IN  IF IsGlobalAgent(user_agent)
        THEN [m1 EXCEPT !.seen_global_agent_ = TRUE]
        ELSE IF IsSpecificAgent(m1, user_agent)
        THEN [m1 EXCEPT !.ever_seen_specific_agent_ = TRUE,
                        !.seen_specific_agent_      = TRUE]
        ELSE m1

\* Mutant of HandleUserAgent: seen_separator_ is cleared but the flags of the
\* previous group are not.
HandleUserAgent_KeepsGroup(m, line_num, user_agent) ==
    LET m1 == IF m.seen_separator_
              THEN [m EXCEPT !.seen_separator_ = FALSE]
              ELSE m
    IN  IF IsGlobalAgent(user_agent)
        THEN [m1 EXCEPT !.seen_global_agent_ = TRUE]
        ELSE IF IsSpecificAgent(m1, user_agent)
        THEN [m1 EXCEPT !.ever_seen_specific_agent_ = TRUE,
                        !.seen_specific_agent_      = TRUE]
        ELSE m1

HandleUserAgent(m, line_num, user_agent) ==
    LET m1 == IF m.seen_separator_
              THEN [m EXCEPT !.seen_specific_agent_ = FALSE,
                             !.seen_global_agent_   = FALSE,
                             !.seen_separator_      = FALSE]
              ELSE m
    IN  IF IsGlobalAgent(user_agent)
        THEN [m1 EXCEPT !.seen_global_agent_ = TRUE]
        ELSE IF IsSpecificAgent(m1, user_agent)
        THEN [m1 EXCEPT !.ever_seen_specific_agent_ = TRUE,
                        !.seen_specific_agent_      = TRUE]
        ELSE m1

\* value.find_last_of('/'), 1-based; 0 for npos.
FindLastSlash(value) ==
    IF \E i \in 1..Len(value) : value[i] = "/"
    THEN CHOOSE i \in 1..Len(value) :
            value[i] = "/" /\ \A j \in (i + 1)..Len(value) : value[j] # "/"
    ELSE 0

clipped_substr(s, pos) == SubSeq(s, (IF pos < Len(s) THEN pos ELSE Len(s)) + 1, Len(s))

IndexHtm == <<"/", "i", "n", "d", "e", "x", ".", "h", "t", "m">>

\* Mutant of AllowUpdate: <= for <, an equal priority overwrites the record.
AllowUpdate_OverwritesOnTie(m, priority, line_num) ==
    IF m.seen_specific_agent_
    THEN IF m.allow_.specific.priority <= priority
         THEN [m EXCEPT !.allow_.specific = MatchSet(priority, line_num)]
         ELSE m
    ELSE IF m.allow_.global.priority <= priority
         THEN [m EXCEPT !.allow_.global = MatchSet(priority, line_num)]
         ELSE m

\* The test priority < stored priority and the Set that follows, for an Allow.
AllowUpdate(m, priority, line_num) ==
    IF m.seen_specific_agent_
    THEN IF m.allow_.specific.priority < priority
         THEN [m EXCEPT !.allow_.specific = MatchSet(priority, line_num)]
         ELSE m
    ELSE IF m.allow_.global.priority < priority
         THEN [m EXCEPT !.allow_.global = MatchSet(priority, line_num)]
         ELSE m

\* Mutant of HandleAllow: the retried pattern is "<dir>/" without the "$".
HandleAllow_RetryUnanchored(m, line_num, value) ==
    IF ~seen_any_agent(m) THEN m
    ELSE LET m1        == [m EXCEPT !.seen_separator_ = TRUE]
             priority  == MatchAllow(m.path_, value)
             slash_pos == FindLastSlash(value)
             retry     == SubSeq(value, 1, slash_pos)
         IN  IF priority >= 0
             THEN AllowUpdate(m1, priority, line_num)
             ELSE IF slash_pos # 0
                     /\ starts_with(clipped_substr(value, slash_pos - 1), IndexHtm)
                     /\ MatchAllow(m.path_, retry) >= 0
                  THEN AllowUpdate(m1, MatchAllow(m.path_, retry), line_num)
                  ELSE m1

RECURSIVE HandleAllow(_, _, _)
HandleAllow(m, line_num, value) ==
    IF ~seen_any_agent(m) THEN m
    ELSE LET m1        == [m EXCEPT !.seen_separator_ = TRUE]
             priority  == MatchAllow(m.path_, value)
             slash_pos == FindLastSlash(value)
         IN  IF priority >= 0
             THEN AllowUpdate(m1, priority, line_num)
             ELSE IF slash_pos # 0
                     /\ starts_with(clipped_substr(value, slash_pos - 1), IndexHtm)
                  THEN HandleAllow(m1, line_num,
                                   Append(SubSeq(value, 1, slash_pos), "$"))
                  ELSE m1

\* Mutant of DisallowUpdate: the last matching Disallow is recorded, whatever
\* its priority.
DisallowUpdate_LastWins(m, priority, line_num) ==
    IF m.seen_specific_agent_
    THEN [m EXCEPT !.disallow_.specific = MatchSet(priority, line_num)]
    ELSE [m EXCEPT !.disallow_.global = MatchSet(priority, line_num)]

\* Mutant of DisallowUpdate: seen_global_agent_ is tested first, a group opened
\* by "*" and by an agent of the caller updates the global record.
DisallowUpdate_GlobalFirst(m, priority, line_num) ==
    IF m.seen_global_agent_
    THEN IF m.disallow_.global.priority < priority
         THEN [m EXCEPT !.disallow_.global = MatchSet(priority, line_num)]
         ELSE m
    ELSE IF m.disallow_.specific.priority < priority
         THEN [m EXCEPT !.disallow_.specific = MatchSet(priority, line_num)]
         ELSE m

\* The test priority < stored priority and the Set that follows, for a Disallow.
DisallowUpdate(m, priority, line_num) ==
    IF m.seen_specific_agent_
    THEN IF m.disallow_.specific.priority < priority
         THEN [m EXCEPT !.disallow_.specific = MatchSet(priority, line_num)]
         ELSE m
    ELSE IF m.disallow_.global.priority < priority
         THEN [m EXCEPT !.disallow_.global = MatchSet(priority, line_num)]
         ELSE m

\* Mutant of HandleDisallow: seen_separator_ is set before the test of
\* seen_any_agent.
HandleDisallow_SeparatorFirst(m, line_num, value) ==
    LET m1       == [m EXCEPT !.seen_separator_ = TRUE]
        priority == MatchDisallow(m.path_, value)
    IN  IF ~seen_any_agent(m) THEN m1
        ELSE IF priority >= 0 THEN DisallowUpdate(m1, priority, line_num) ELSE m1

HandleDisallow(m, line_num, value) ==
    IF ~seen_any_agent(m) THEN m
    ELSE LET m1       == [m EXCEPT !.seen_separator_ = TRUE]
             priority == MatchDisallow(m.path_, value)
         IN  IF priority >= 0 THEN DisallowUpdate(m1, priority, line_num) ELSE m1

HandleCrawlDelay(m, line_num, value) == [m EXCEPT !.seen_separator_ = TRUE]

HandleSitemap(m, line_num, value) == [m EXCEPT !.seen_separator_ = TRUE]

\* Mutant of HandleUnknownAction: ignored outside a group, as Allow and
\* Disallow are.
HandleUnknownAction_OnlyInGroup(m, line_num, action, value) ==
    IF ~seen_any_agent(m) THEN m ELSE [m EXCEPT !.seen_separator_ = TRUE]

HandleUnknownAction(m, line_num, action, value) == [m EXCEPT !.seen_separator_ = TRUE]

\* EmitKeyValueToHandler (robots.cc:285-300) on a RobotsMatcher.
EmitKeyValueToHandler(m, line, type, key, value) ==
    CASE type = "USER_AGENT"  -> HandleUserAgent(m, line, value)
      [] type = "ALLOW"       -> HandleAllow(m, line, value)
      [] type = "DISALLOW"    -> HandleDisallow(m, line, value)
      [] type = "SITEMAP"     -> HandleSitemap(m, line, value)
      [] type = "CRAWL_DELAY" -> HandleCrawlDelay(m, line, value)
      [] type = "UNKNOWN"     -> HandleUnknownAction(m, line, key, value)

\* The value the handler receives: ParseAndEmitLine (robots.cc:413-422).
EmittedValue(type, value) ==
    IF NeedEscapeValueForKey(type) THEN MaybeEscapePattern(value).dst ELSE value

(***************************************************************************)
(* The line parser (robots.cc:337-479).  A line is the content of           *)
(* line_buffer up to its terminating NUL.                                  *)
(***************************************************************************)
\* strchr(s, c): the 1-based index of the first c, 0 for a null pointer.
strchr(s, c) ==
    IF \E i \in 1..Len(s) : s[i] = c
    THEN CHOOSE i \in 1..Len(s) : s[i] = c /\ \A j \in 1..(i - 1) : s[j] # c
    ELSE 0

\* strpbrk(s, accept), as strchr.
strpbrk(s, accept) ==
    IF \E i \in 1..Len(s) : s[i] \in accept
    THEN CHOOSE i \in 1..Len(s) : s[i] \in accept /\ \A j \in 1..(i - 1) : s[j] \notin accept
    ELSE 0

\* strspn(s, accept): the length of the leading run of bytes of accept.
strspn(s, accept) ==
    IF \E i \in 1..Len(s) : s[i] \notin accept
    THEN (CHOOSE i \in 1..Len(s) : s[i] \notin accept /\ \A j \in 1..(i - 1) : s[j] \in accept) - 1
    ELSE Len(s)

TrimRight(view) ==
    IF \E i \in 1..Len(view) : ~AsciiIsSpace(view[i])
    THEN SubSeq(view, 1, CHOOSE i \in 1..Len(view) :
                            /\ ~AsciiIsSpace(view[i])
                            /\ \A j \in (i + 1)..Len(view) : AsciiIsSpace(view[j]))
    ELSE <<>>

TrimLeft(view) ==
    IF \E i \in 1..Len(view) : ~AsciiIsSpace(view[i])
    THEN SubSeq(view, CHOOSE i \in 1..Len(view) :
                         /\ ~AsciiIsSpace(view[i])
                         /\ \A j \in 1..(i - 1) : AsciiIsSpace(view[j]),
                Len(view))
    ELSE <<>>

Trim(view) == TrimLeft(TrimRight(view))

StripWhitespaceSlowly(s) == Trim(s)

kWhite == {" ", "\t"}

\* The mutation below is GetKeyAndValueFrom without the test for a third
\* token: a line without a colon is split at its first run of blanks.
GetKeyAndValueFrom_AnyTokens(line) ==
    LET comment == strchr(line, "#")
        l1      == IF comment # 0 THEN SubSeq(line, 1, comment - 1) ELSE line
        l2      == StripWhitespaceSlowly(l1)
        colon   == strchr(l2, ":")
        sep     == IF colon # 0 THEN colon ELSE strpbrk(l2, kWhite)
        key     == StripWhitespaceSlowly(SubSeq(l2, 1, sep - 1))
        value   == StripWhitespaceSlowly(SubSeq(l2, sep + 1, Len(l2)))
    IN  IF sep # 0 /\ key # <<>>
        THEN [ok |-> TRUE, key |-> key, value |-> value]
        ELSE [ok |-> FALSE, key |-> <<>>, value |-> <<>>]

\* GetKeyAndValueFrom: ok is the returned bool, key and value the strings
\* *key and *value point at when it is true.
GetKeyAndValueFrom(line) ==
    LET comment == strchr(line, "#")
        l1      == IF comment # 0 THEN SubSeq(line, 1, comment - 1) ELSE line
        l2      == StripWhitespaceSlowly(l1)
        colon   == strchr(l2, ":")
        white   == strpbrk(l2, kWhite)
        val     == white + strspn(SubSeq(l2, white, Len(l2)), kWhite)
        sep     == IF colon # 0 THEN colon
                   ELSE IF white # 0 /\ strpbrk(SubSeq(l2, val, Len(l2)), kWhite) = 0
                        THEN white
                        ELSE 0
        key     == StripWhitespaceSlowly(SubSeq(l2, 1, sep - 1))
        value   == StripWhitespaceSlowly(SubSeq(l2, sep + 1, Len(l2)))
    IN  IF sep # 0 /\ key # <<>>
        THEN [ok |-> TRUE, key |-> key, value |-> value]
        ELSE [ok |-> FALSE, key |-> <<>>, value |-> <<>>]

(***************************************************************************)

(* RobotsTxtParser::Parse (robots.cc:425-479) against a handler that keeps *)
(* the calls it receives.                                                  *)
(***************************************************************************)
utf_bom == <<"xEF", "xBB", "xBF">>

\* The size of line_buffer.  The source has 2083 * 8 (robots.cc:434); the loop
\* uses it only through line_buffer_end, and the model takes it small enough
\* for the documents to hold lines that overflow it.
kMaxLineLen == 3

\* The member function of RobotsParseHandler EmitKeyValueToHandler calls for a
\* key type (robots.cc:285-300).
HandlerHook(type) ==
    CASE type = "USER_AGENT"  -> "HandleUserAgent"
      [] type = "ALLOW"       -> "HandleAllow"
      [] type = "DISALLOW"    -> "HandleDisallow"
      [] type = "SITEMAP"     -> "HandleSitemap"
      [] type = "CRAWL_DELAY" -> "HandleCrawlDelay"
      [] type = "UNKNOWN"     -> "HandleUnknownAction"

Call(hook, line, key, value) ==
    [hook |-> hook, line |-> line, key |-> key, value |-> value]

\* ParseAndEmitLine(current_line, line): the calls the handler has received
\* after it.  Only HandleUnknownAction is given the key.
EmitLine(cs, current_line, line) ==
    LET kv   == GetKeyAndValueFrom(line)
        type == KeyParse(kv.key)
    IN  IF ~kv.ok THEN cs
        ELSE Append(cs, Call(HandlerHook(type), current_line,
                             IF type = "UNKNOWN" THEN kv.key ELSE <<>>,
                             EmittedValue(type, kv.value)))

\* The locals of Parse before the loop; pos is the index of the next byte of
\* robots_body, line the bytes between line_buffer and line_pos.
ParseLocals ==
    [pc |-> "start", pos |-> 1, line |-> <<>>, line_num |-> 0, bom_pos |-> 0,
     last_was_carriage_return |-> FALSE]

\* Mutant of ParseByte: a terminator that ends an empty line is skipped, the
\* line is not counted.
ParseByte_SkipsEmptyLines(st, cs, ch) ==
    IF st.bom_pos < Len(utf_bom) /\ ch = utf_bom[st.bom_pos + 1]
    THEN [st |-> [st EXCEPT !.bom_pos = @ + 1], calls |-> cs]
    ELSE LET s1 == [st EXCEPT !.bom_pos = Len(utf_bom)]
         IN  IF ch # "\n" /\ ch # "\r"
             THEN [st    |-> IF Len(s1.line) < kMaxLineLen - 1
                             THEN [s1 EXCEPT !.line = Append(@, ch)]
                             ELSE s1,
                   calls |-> cs]
             ELSE IF Len(s1.line) = 0
             THEN [st    |-> [s1 EXCEPT !.last_was_carriage_return = (ch = "\r")],
                   calls |-> cs]
             ELSE [st    |-> [s1 EXCEPT !.line = <<>>,
                                        !.line_num = @ + 1,
                                        !.last_was_carriage_return = (ch = "\r")],
                   calls |-> EmitLine(cs, s1.line_num + 1, s1.line)]

\* Mutant of ParseByte: the LF of a CR LF ends a line of its own.
ParseByte_NoCrLf(st, cs, ch) ==
    IF st.bom_pos < Len(utf_bom) /\ ch = utf_bom[st.bom_pos + 1]
    THEN [st |-> [st EXCEPT !.bom_pos = @ + 1], calls |-> cs]
    ELSE LET s1 == [st EXCEPT !.bom_pos = Len(utf_bom)]
         IN  IF ch # "\n" /\ ch # "\r"
             THEN [st    |-> IF Len(s1.line) < kMaxLineLen - 1
                             THEN [s1 EXCEPT !.line = Append(@, ch)]
                             ELSE s1,
                   calls |-> cs]
             ELSE [st    |-> [s1 EXCEPT !.line = <<>>,
                                        !.line_num = @ + 1,
                                        !.last_was_carriage_return = (ch = "\r")],
                   calls |-> EmitLine(cs, s1.line_num + 1, s1.line)]

\* Mutant of ParseByte: bytes are stored up to the last slot of line_buffer,
\* the one kept for the NUL.
ParseByte_FullBuffer(st, cs, ch) ==
    IF st.bom_pos < Len(utf_bom) /\ ch = utf_bom[st.bom_pos + 1]
    THEN [st |-> [st EXCEPT !.bom_pos = @ + 1], calls |-> cs]
    ELSE LET s1 == [st EXCEPT !.bom_pos = Len(utf_bom)]
             is_CRLF_continuation ==
                 Len(s1.line) = 0 /\ s1.last_was_carriage_return /\ ch = "\n"
         IN  IF ch # "\n" /\ ch # "\r"
             THEN [st    |-> IF Len(s1.line) < kMaxLineLen
                             THEN [s1 EXCEPT !.line = Append(@, ch)]
                             ELSE s1,
                   calls |-> cs]
             ELSE IF is_CRLF_continuation
             THEN [st    |-> [s1 EXCEPT !.line = <<>>,
                                        !.last_was_carriage_return = (ch = "\r")],
                   calls |-> cs]
             ELSE [st    |-> [s1 EXCEPT !.line = <<>>,
                                        !.line_num = @ + 1,
                                        !.last_was_carriage_return = (ch = "\r")],
                   calls |-> EmitLine(cs, s1.line_num + 1, s1.line)]

\* Mutant of ParseByte: a mismatching byte does not end the matching of the
\* byte order mark.
ParseByte_BomAnywhere(st, cs, ch) ==
    IF st.bom_pos < Len(utf_bom) /\ ch = utf_bom[st.bom_pos + 1]
    THEN [st |-> [st EXCEPT !.bom_pos = @ + 1], calls |-> cs]
    ELSE LET is_CRLF_continuation ==
                 Len(st.line) = 0 /\ st.last_was_carriage_return /\ ch = "\n"
         IN  IF ch # "\n" /\ ch # "\r"
             THEN [st    |-> IF Len(st.line) < kMaxLineLen - 1
                             THEN [st EXCEPT !.line = Append(@, ch)]
                             ELSE st,
                   calls |-> cs]
             ELSE IF is_CRLF_continuation
             THEN [st    |-> [st EXCEPT !.line = <<>>,
                                        !.last_was_carriage_return = (ch = "\r")],
                   calls |-> cs]
             ELSE [st    |-> [st EXCEPT !.line = <<>>,
                                        !.line_num = @ + 1,
                                        !.last_was_carriage_return = (ch = "\r")],
                   calls |-> EmitLine(cs, st.line_num + 1, st.line)]

\* One iteration of the loop over the bytes of robots_body, for the byte ch.
ParseByte(st, cs, ch) ==
    IF st.bom_pos < Len(utf_bom) /\ ch = utf_bom[st.bom_pos + 1]
    THEN [st |-> [st EXCEPT !.bom_pos = @ + 1], calls |-> cs]
    ELSE LET s1 == [st EXCEPT !.bom_pos = Len(utf_bom)]
             is_CRLF_continuation ==
                 Len(s1.line) = 0 /\ s1.last_was_carriage_return /\ ch = "\n"
         IN  IF ch # "\n" /\ ch # "\r"
             THEN [st    |-> IF Len(s1.line) < kMaxLineLen - 1
                             THEN [s1 EXCEPT !.line = Append(@, ch)]
                             ELSE s1,
                   calls |-> cs]
             ELSE IF is_CRLF_continuation
             THEN [st    |-> [s1 EXCEPT !.line = <<>>,
                                        !.last_was_carriage_return = (ch = "\r")],
                   calls |-> cs]
             ELSE [st    |-> [s1 EXCEPT !.line = <<>>,
                                        !.line_num = @ + 1,
                                        !.last_was_carriage_return = (ch = "\r")],
                   calls |-> EmitLine(cs, s1.line_num + 1, s1.line)]

(***************************************************************************)

(* Parse as a function of the document: the calls the handler has received *)
(* when it returns.                                                        *)
(***************************************************************************)
RECURSIVE ParseLoop(_, _, _)
ParseLoop(st, cs, body) ==
    IF st.pos > Len(body)
    THEN Append(EmitLine(cs, st.line_num + 1, st.line),
                Call("HandleRobotsEnd", 0, <<>>, <<>>))
    ELSE LET r == ParseByte(st, cs, body[st.pos])
         IN  ParseLoop([r.st EXCEPT !.pos = @ + 1], r.calls, body)

Parse(body) ==
    ParseLoop(ParseLocals, <<Call("HandleRobotsStart", 0, <<>>, <<>>)>>, body)

(***************************************************************************)

(* The inputs of the model.                                                *)
(***************************************************************************)
SeqsUpTo(S, n) == UNION {[1..k -> S] : k \in 0..n}

\* The caller's list of user agents, and the paths GetPathParamsQuery hands
\* over (each starts with "/", robots.cc:527).
UserAgents == << <<"f", "o">> >>

Paths == { <<"/">>, <<"/", "a">> }

\* Values of user-agent lines: the global agent, the global agent followed by
\* text, the caller's agent in another case and with a version suffix, and
\* another crawler.
AgentValues == { <<"*">>, <<"*", " ", "x">>, <<"F", "o">>, <<"f", "o", "/", "1">>,
                 <<"b">> }

\* Values of allow and disallow lines.
Patterns == { <<>>, <<"/">>, <<"/", "a">>, <<"/", "a", "$">>, <<"/", "b">>,
              <<"/", "i", "n", "d", "e", "x", ".", "h", "t", "m">> }

KeyUserAgent == <<"u", "s", "e", "r", "-", "a", "g", "e", "n", "t">>
KeyAllow == <<"A", "l", "l", "o", "w">>
KeyDisallow == <<"d", "i", "s", "a", "l", "l", "o", "w">>
KeySitemap == <<"s", "i", "t", "e", "m", "a", "p">>
KeyCrawlDelay == <<"c", "r", "a", "w", "l", "-", "d", "e", "l", "a", "y">>
KeyOther == <<"h", "o", "s", "t">>

\* The (key, value) pairs GetKeyAndValueFrom yields for the lines of a document.
Lines ==
    {[key |-> KeyUserAgent, value |-> v] : v \in AgentValues}
      \cup {[key |-> k, value |-> v] : k \in {KeyAllow, KeyDisallow}, v \in Patterns}
      \cup {[key |-> k, value |-> <<"/">>] : k \in {KeySitemap, KeyCrawlDelay, KeyOther}}

PathChars == {"a", "A", "$"}
PatternChars == {"a", "*", "$"}

(***************************************************************************)
(* State.                                                                  *)
(*   matcher   the RobotsMatcher object                                    *)
(*   pc        "idle" between calls of AllowedByRobots, "scan" inside      *)
(*             RobotsTxtParser::Parse                                      *)
(*   line_num  the line counter of Parse                                   *)
(*   ev        the directive event delivered last in this scan             *)
(*   hist      history: the allow and disallow directives of this scan     *)
(*             that matched the path inside an open group                  *)
(*   named     history: whether a user-agent line of this scan named one   *)
(*             of the caller's agents                                      *)
(*   carried   history: whether the matcher still held records or flags    *)
(*             of an earlier scan when this scan began                     *)
(*   fresh     history: a matcher constructed when this scan began and     *)
(*             given the same events                                       *)
(*   result    what AllowedByRobots returned last                          *)
(*   mpath, mpattern, mst   a call of Matches on its own: its arguments    *)
(*             and its loop state                                          *)
(*   robots_body, parser, calls   a call of Parse on its own: the          *)
(*             document, the locals of Parse, and the calls the handler    *)
(*             has received                                                *)
(*   arg, ret  a call of one function on its own: its argument, and the    *)
(*             values it returned (none before the call)                   *)
(***************************************************************************)
VARIABLES matcher, pc, line_num, ev, hist, named, carried, fresh, result,
          mpath, mpattern, mst, robots_body, parser, calls, arg, ret

matcherVars == <<matcher, pc, line_num, ev, hist, named, carried, fresh, result>>
matchesVars == <<mpath, mpattern, mst>>
parserVars == <<robots_body, parser, calls>>
callVars == <<arg, ret>>
vars == <<matcher, pc, line_num, ev, hist, named, carried, fresh, result,
          mpath, mpattern, mst, robots_body, parser, calls, arg, ret>>

NoEvent == [type |-> "NONE", key |-> <<>>, value |-> <<>>]

\* The members HandleRobotsStart is to reset.
ScanState(m) ==
    <<m.allow_, m.disallow_, m.seen_global_agent_, m.seen_specific_agent_,
      m.ever_seen_specific_agent_, m.seen_separator_>>

\* A user-agent value that names one of the caller's agents.
NamesAgent(user_agents, value) ==
    /\ ~IsGlobalAgent(value)
    /\ \E k \in 1..Len(user_agents) : iequals(ExtractUserAgent(value), user_agents[k])

\* The priority with which a directive matches path, -1 if it does not: the
\* pattern's length, or for an Allow that fails, the length of the retried
\* "<dir>/$" pattern.
DirectivePriority(type, path, value) ==
    LET slash_pos == FindLastSlash(value)
        retry     == Append(SubSeq(value, 1, slash_pos), "$")
    IN  IF Matches(path, value) THEN Len(value)
        ELSE IF type = "ALLOW" /\ slash_pos # 0
                /\ starts_with(SubSeq(value, slash_pos, Len(value)), IndexHtm)
                /\ Matches(path, retry)
        THEN Len(retry)
        ELSE -1

MatcherInit ==
    /\ matcher = NewMatcher
    /\ pc = "idle"
    /\ line_num = 0
    /\ ev = NoEvent
    /\ hist = {}
    /\ named = FALSE
    /\ carried = FALSE
    /\ fresh = NewMatcher
    /\ result = "none"

MatchesIdle ==
    /\ mpath = <<>>
    /\ mpattern = <<>>
    /\ mst = MatchesStart(<<>>, <<>>)

ParserIdle ==
    /\ robots_body = <<>>
    /\ parser = ParseLocals
    /\ calls = <<>>

CallIdle ==
    /\ arg = <<>>
    /\ ret = <<>>

Init == MatcherInit /\ MatchesIdle /\ ParserIdle /\ CallIdle

\* AllowedByRobots up to the first byte of the document: InitUserAgentsAndPath,
\* then Parse calls HandleRobotsStart (robots.cc:536-538, 434-444).
AllowedByRobotsBegin ==
    /\ pc = "idle"
    /\ \E path \in Paths :
          /\ matcher' = HandleRobotsStart(InitUserAgentsAndPath(matcher, UserAgents, path))
          /\ fresh' = HandleRobotsStart(InitUserAgentsAndPath(NewMatcher, UserAgents, path))
    /\ pc' = "scan"
    /\ line_num' = 0
    /\ ev' = NoEvent
    /\ hist' = {}
    /\ named' = FALSE
    /\ carried' = (ScanState(matcher) # ScanState(NewMatcher))
    /\ result' = "none"
    /\ UNCHANGED <<matchesVars, parserVars, callVars>>

\* ParseAndEmitLine(++line_num, line) for a line with a key and a value.
ParseAndEmitLine ==
    /\ pc = "scan"
    /\ line_num < MaxLines
    /\ \E l \in Lines :
          LET type  == KeyParse(l.key)
              value == EmittedValue(type, l.value)
              prio  == DirectivePriority(type, matcher.path_, value)
          IN  /\ matcher' = EmitKeyValueToHandler(matcher, line_num + 1, type, l.key, value)
              /\ fresh' = EmitKeyValueToHandler(fresh, line_num + 1, type, l.key, value)
              /\ named' = (named \/ (type = "USER_AGENT"
                                        /\ NamesAgent(matcher.user_agents_, value)))
              /\ ev' = [type |-> type, key |-> l.key, value |-> value]
              /\ hist' = IF type \in {"ALLOW", "DISALLOW"} /\ seen_any_agent(matcher)
                            /\ prio >= 0
                         THEN hist \cup {[type     |-> type,
                                          specific |-> matcher.seen_specific_agent_,
                                          priority |-> prio,
                                          line     |-> line_num + 1]}
                         ELSE hist
    /\ line_num' = line_num + 1
    /\ UNCHANGED <<pc, carried, result, matchesVars, parserVars, callVars>>

\* ParseAndEmitLine(++line_num, line) for a line GetKeyAndValueFrom rejects
\* (robots.cc:409-411): blank, comment only, no separator or no key.
SkipLine ==
    /\ pc = "scan"
    /\ line_num < MaxLines
    /\ line_num' = line_num + 1
    /\ ev' = NoEvent
    /\ UNCHANGED <<matcher, pc, hist, named, carried, fresh, result, matchesVars, parserVars, callVars>>

\* The end of Parse and of AllowedByRobots: the last line has been emitted
\* (robots.cc:475-477), HandleRobotsEnd is called and !disallow() returned.
AllowedByRobotsEnd ==
    /\ pc = "scan"
    /\ line_num >= 1
    /\ matcher' = HandleRobotsEnd(matcher)
    /\ fresh' = HandleRobotsEnd(fresh)
    /\ result' = IF disallow(matcher) THEN "disallowed" ELSE "allowed"
    /\ pc' = "idle"
    /\ UNCHANGED <<line_num, ev, hist, named, carried, matchesVars, parserVars, callVars>>

Next ==
    \/ AllowedByRobotsBegin
    \/ ParseAndEmitLine
    \/ SkipLine
    \/ AllowedByRobotsEnd

Spec == Init /\ [][Next]_vars

(***************************************************************************)
(* Matches on its own: the arguments are drawn from all strings over small *)
(* alphabets and the loop is run one iteration at a time.                  *)
(***************************************************************************)
InitMatches ==
    /\ MatcherInit
    /\ mpath \in SeqsUpTo(PathChars, MaxPathLen)
    /\ mpattern \in SeqsUpTo(PatternChars, MaxPatLen)
    /\ mst = MatchesStart(mpath, mpattern)
    /\ ParserIdle
    /\ CallIdle

MatchesStep ==
    /\ mst.ret = "run"
    /\ mst' = MatchesIter(mst, mpath, mpattern)
    /\ UNCHANGED <<mpath, mpattern, matcherVars, parserVars, callVars>>

NextMatches == MatchesStep

SpecMatches == InitMatches /\ [][NextMatches]_vars

(***************************************************************************)
(* Parse on its own: the document is drawn from the strings over the bytes  *)
(* that matter to the loop (a key byte, the colon, LF, CR), and from the   *)
(* strings that begin with bytes of the byte order mark; the loop is run   *)
(* one byte at a time.                                                     *)
(***************************************************************************)
MaxDocLen == 6
MaxBomTail == 2

DocChars == {"a", ":", "\n", "\r"}
BomTailChars == {"a", ":", "\n", "xEF"}

Docs ==
    SeqsUpTo(DocChars, MaxDocLen)
      \cup {b \o d : b \in SeqsUpTo(Range(utf_bom), Len(utf_bom)),
                     d \in SeqsUpTo(BomTailChars, MaxBomTail)}

StartCall == Call("HandleRobotsStart", 0, <<>>, <<>>)
EndCall == Call("HandleRobotsEnd", 0, <<>>, <<>>)

InitParse ==
    /\ MatcherInit
    /\ MatchesIdle
    /\ CallIdle
    /\ robots_body \in Docs
    /\ parser = ParseLocals
    /\ calls = <<>>

\* Parse up to the loop: HandleRobotsStart and the locals (robots.cc:426-447).
ParseBegin ==
    /\ parser.pc = "start"
    /\ calls' = Append(calls, StartCall)
    /\ parser' = [ParseLocals EXCEPT !.pc = "loop"]
    /\ UNCHANGED <<robots_body, matcherVars, matchesVars, callVars>>

\* One iteration of the loop (robots.cc:448-474).
ParseNextByte ==
    /\ parser.pc = "loop"
    /\ parser.pos <= Len(robots_body)
    /\ LET r == ParseByte(parser, calls, robots_body[parser.pos])
       IN  /\ parser' = [r.st EXCEPT !.pos = @ + 1]
           /\ calls' = r.calls
    /\ UNCHANGED <<robots_body, matcherVars, matchesVars, callVars>>

\* After the loop: the last line and HandleRobotsEnd (robots.cc:475-478).
ParseFinish ==
    /\ parser.pc = "loop"
    /\ parser.pos > Len(robots_body)
    /\ calls' = Append(EmitLine(calls, parser.line_num + 1, parser.line), EndCall)
    /\ parser' = [parser EXCEPT !.line_num = @ + 1, !.pc = "done"]
    /\ UNCHANGED <<robots_body, matcherVars, matchesVars, callVars>>

NextParse ==
    \/ ParseBegin
    \/ ParseNextByte
    \/ ParseFinish

SpecParse == InitParse /\ [][NextParse]_vars

(***************************************************************************)

(* GetKeyAndValueFrom on its own: the line is drawn from the strings over  *)
(* the bytes the function tells apart (a key byte, the colon, blank, tab,  *)
(* the comment sign).                                                      *)
(***************************************************************************)
MaxLineInput == 5

LineChars == {"a", ":", " ", "\t", "#"}

InitLine ==
    /\ MatcherInit
    /\ MatchesIdle
    /\ ParserIdle
    /\ arg \in SeqsUpTo(LineChars, MaxLineInput)
    /\ ret = <<>>

CallGetKeyAndValueFrom ==
    /\ ret = <<>>
    /\ ret' = <<GetKeyAndValueFrom(arg)>>
    /\ UNCHANGED <<arg, matcherVars, matchesVars, parserVars>>

NextLine == CallGetKeyAndValueFrom

SpecLine == InitLine /\ [][NextLine]_vars

(***************************************************************************)

(* ParseAndEmitLine on its own: the line is "<key>:1" with the key drawn    *)
(* from the spellings the classifier knows and others, in lower case, in   *)
(* upper case and capitalised, alone and followed by more bytes.           *)
(***************************************************************************)
KeySpellings ==
    { KeyUserAgent,
      <<"u", "s", "e", "r", "a", "g", "e", "n", "t">>,
      <<"u", "s", "e", "r", " ", "a", "g", "e", "n", "t">>,
      <<"a", "l", "l", "o", "w">>,
      KeyDisallow,
      <<"d", "i", "s", "s", "a", "l", "l", "o", "w">>,
      <<"d", "i", "s", "s", "a", "l", "o", "w">>,
      <<"d", "i", "s", "a", "l", "o", "w">>,
      <<"d", "i", "a", "s", "l", "l", "o", "w">>,
      <<"d", "i", "s", "a", "l", "l", "a", "w">>,
      KeySitemap,
      <<"s", "i", "t", "e", "-", "m", "a", "p">>,
      KeyCrawlDelay,
      <<"c", "r", "a", "w", "l", "d", "e", "l", "a", "y">>,
      <<"c", "r", "a", "w", "l", " ", "d", "e", "l", "a", "y">>,
      <<"c", "r", "a", "w", "l">>,
      KeyOther,
      <<"x">> }

KeySuffixes == { <<>>, <<"s">>, <<"-", "x">> }

ToUpperStr(s) == [i \in 1..Len(s) |-> AsciiToUpper(s[i])]

Capitalised(s) == [i \in 1..Len(s) |-> IF i = 1 THEN AsciiToUpper(s[i]) ELSE s[i]]

Keys ==
    {k \o x : k \in UNION {{s, ToUpperStr(s), Capitalised(s)} : s \in KeySpellings},
              x \in KeySuffixes}

InitKey ==
    /\ MatcherInit
    /\ MatchesIdle
    /\ ParserIdle
    /\ arg \in {k \o <<":", "1">> : k \in Keys}
    /\ ret = <<>>

\* ParseAndEmitLine(1, line): ret holds the calls the handler received.
CallParseAndEmitLine ==
    /\ ret = <<>>
    /\ ret' = <<EmitLine(<<>>, 1, arg)>>
    /\ UNCHANGED <<arg, matcherVars, matchesVars, parserVars>>

NextKey == CallParseAndEmitLine

SpecKey == InitKey /\ [][NextKey]_vars

(***************************************************************************)

(* MaybeEscapePattern on its own: src is drawn from the strings over the    *)
(* bytes the function tells apart ("%", a lower-case and an upper-case hex *)
(* digit, a decimal digit, a byte that is no hex digit, a byte with the    *)
(* high bit set); the function is called on src and then on its output.    *)
(***************************************************************************)
MaxValueLen == 4

ValueChars == {"/", "%", "a", "F", "2", "xC3"}

InitEscape ==
    /\ MatcherInit
    /\ MatchesIdle
    /\ ParserIdle
    /\ arg \in SeqsUpTo(ValueChars, MaxValueLen)
    /\ ret = <<>>

CallMaybeEscapePattern ==
    /\ ret = <<>>
    /\ ret' = <<MaybeEscapePattern(arg)>>
    /\ UNCHANGED <<arg, matcherVars, matchesVars, parserVars>>

\* A second call, on the output of the first.
CallMaybeEscapePatternAgain ==
    /\ Len(ret) = 1
    /\ ret' = Append(ret, MaybeEscapePattern(ret[1].dst))
    /\ UNCHANGED <<arg, matcherVars, matchesVars, parserVars>>

NextEscape ==
    \/ CallMaybeEscapePattern
    \/ CallMaybeEscapePatternAgain

SpecEscape == InitEscape /\ [][NextEscape]_vars

(***************************************************************************)

(* Properties.                                                             *)
(***************************************************************************)
Verdict(m) == IF disallow(m) THEN "disallowed" ELSE "allowed"

\* A scan is under way or has ended: HandleRobotsStart has been called.
Started == pc = "scan" \/ result # "none"

\* The largest priority among the directives of one kind that matched in the
\* global (specific = FALSE) or specific (specific = TRUE) groups, -1 if none.
HistPriority(type, specific) ==
    LET S == {h.priority : h \in {x \in hist : x.type = type /\ x.specific = specific}}
    IN  IF S = {} THEN -1 ELSE CHOOSE p \in S : \A q \in S : q <= p

\* The groups that decide the verdict: the specific ones once an agent of the
\* caller has been named, the global ones otherwise.
Deciding == named

\* C1: after any sequence of directive events following HandleRobotsStart,
\* disallow() is true exactly when (a) some specific record has priority > 0
\* and disallow.specific.priority > allow.specific.priority, or (b) no specific
\* record has priority > 0, ever_seen_specific_agent is false, some global
\* record has priority > 0 and disallow.global.priority > allow.global.priority;
\* AllowedByRobots returns the negation.
C1_VerdictRule ==
    LET as == matcher.allow_.specific.priority
        ds == matcher.disallow_.specific.priority
        ag == matcher.allow_.global.priority
        dg == matcher.disallow_.global.priority
        a  == (as > 0 \/ ds > 0) /\ ds > as
        b  == /\ ~(as > 0 \/ ds > 0)
              /\ ~matcher.ever_seen_specific_agent_
              /\ (ag > 0 \/ dg > 0)
              /\ dg > ag
    IN  Started =>
          /\ disallow(matcher) = (a \/ b)
          /\ pc = "idle" => (result = "disallowed") = (a \/ b)

\* C1 witness: a scan that ended disallowed by the global group (case b).
C1_Witness ==
    /\ pc = "idle"
    /\ result = "disallowed"
    /\ ~matcher.ever_seen_specific_agent_
    /\ matcher.disallow_.global.priority > matcher.allow_.global.priority
    /\ matcher.allow_.global.priority > 0

\* The longest matching Allow and the longest matching Disallow of the deciding
\* groups have the same, non-zero length.
TopTie ==
    /\ HistPriority("ALLOW", Deciding) = HistPriority("DISALLOW", Deciding)
    /\ HistPriority("ALLOW", Deciding) > 0

\* C2 as stated: when an Allow and a Disallow of one group match the path with
\* the same pattern length (and nothing longer matches), the verdict is
\* disallowed.
C2_Original ==
    (Started /\ TopTie) =>
        /\ disallow(matcher)
        /\ pc = "idle" => result = "disallowed"

\* C2 amended: when an Allow and a Disallow of the deciding group match the path
\* with the same pattern length and nothing longer matches, equal priority
\* favors allow: the verdict is allowed.
C2_TieAllows ==
    (Started /\ TopTie) =>
        /\ ~disallow(matcher)
        /\ pc = "idle" => result = "allowed"

\* C2 witness: a scan that ended with such a tie.
C2_Witness ==
    /\ pc = "idle"
    /\ result = "allowed"
    /\ TopTie

\* C3: within the deciding group the longer matching pattern wins whatever the
\* order of the lines: the verdict is a function of the longest matching Allow
\* length A and the longest matching Disallow length D alone (hist is a set:
\* neither the order nor the line numbers of the directives enter), allowed if
\* A > D and disallowed if D > A and the Disallow pattern is not empty.
C3_LongestWins ==
    LET A == HistPriority("ALLOW", Deciding)
        D == HistPriority("DISALLOW", Deciding)
    IN  Started =>
          /\ A > D => ~disallow(matcher)
          /\ (D > A /\ D > 0) => disallow(matcher)
          /\ disallow(matcher) = (D > A /\ D > 0)

\* C3 witness: a longer Allow came first and a shorter Disallow after it in the
\* same group, and the URL is allowed.
C3_Witness ==
    /\ ~disallow(matcher)
    /\ \E a \in hist, d \in hist :
          /\ a.type = "ALLOW" /\ d.type = "DISALLOW"
          /\ a.specific = Deciding /\ d.specific = Deciding
          /\ a.priority > d.priority /\ d.priority > 0
          /\ a.line < d.line

\* C4: if any user-agent line of the document names an agent of the caller, the
\* URL is allowed whenever no directive with a non-empty pattern matched in a
\* specific group, whatever the global rules before or after it.
C4_SpecificOverridesGlobal ==
    (Started /\ named /\ \A h \in hist : h.specific => h.priority <= 0) =>
        /\ ~disallow(matcher)
        /\ pc = "idle" => result = "allowed"

\* C4 witness: an agent was named, its groups hold no directive at all, a global
\* Disallow with a non-empty pattern matched, and the scan ended allowed.
C4_Witness ==
    /\ pc = "idle"
    /\ result = "allowed"
    /\ named
    /\ \A h \in hist : ~h.specific
    /\ \E h \in hist : h.type = "DISALLOW" /\ h.priority > 0
    /\ \A h \in hist : h.type = "DISALLOW"

\* The four match records, by kind and group.
Record(m, type, specific) ==
    IF type = "ALLOW"
    THEN (IF specific THEN m.allow_.specific ELSE m.allow_.global)
    ELSE (IF specific THEN m.disallow_.specific ELSE m.disallow_.global)

RecordKeys == {"ALLOW", "DISALLOW"} \X BOOLEAN

\* A step of the scan that delivers a directive event, seen from both its states.
EventStep == pc = "scan" /\ pc' = "scan" /\ line_num' = line_num + 1 /\ ev'.type # "NONE"

\* The record of a kind and group is the earliest of the longest directives of
\* that kind that matched in that group, or "no match".
EarliestOfLongest(type, specific) ==
    LET H == {h \in hist : h.type = type /\ h.specific = specific}
        r == Record(matcher, type, specific)
    IN  IF H = {} THEN r = [priority |-> -1, line |-> 0]
        ELSE /\ r.priority = HistPriority(type, specific)
             /\ \E h \in H : h.priority = r.priority /\ h.line = r.line
             /\ \A h \in H : h.priority = r.priority => r.line <= h.line

\* C5: between HandleRobotsStart and the end of the scan the priority of each of
\* the four match records never decreases, and a record's (priority, line) pair
\* is overwritten only by a directive whose priority is strictly greater than
\* the stored one; so among the matching directives of one kind, group and
\* pattern length the line of the earliest is kept.
C5_RecordsMonotone ==
    [][(pc = "scan" /\ pc' = "scan") =>
         \A k \in RecordKeys :
            LET old == Record(matcher, k[1], k[2])
                new == Record(matcher', k[1], k[2])
            IN  /\ new.priority >= old.priority
                /\ new # old =>
                     /\ ev'.type = k[1]
                     /\ new.priority =
                          DirectivePriority(ev'.type, matcher.path_, ev'.value)
                     /\ new.priority > old.priority
                     /\ new.line = line_num'
                /\ EarliestOfLongest(k[1], k[2])']_vars

\* C5 witness: two Disallow lines with the same pattern length matched in the
\* same group, and the record holds the line of the first.
C5_Witness ==
    \E h1 \in hist, h2 \in hist :
        /\ h1.type = "DISALLOW" /\ h2.type = "DISALLOW"
        /\ h1.specific = h2.specific
        /\ h1.priority = h2.priority /\ h1.priority > 0
        /\ h1.line < h2.line
        /\ Record(matcher, "DISALLOW", h1.specific) =
             [priority |-> h1.priority, line |-> h1.line]

\* C6: a user-agent line that follows a non-user-agent directive
\* (seen_separator set) starts a new group: seen_global_agent,
\* seen_specific_agent and seen_separator are cleared before the new name is
\* examined, so they then reflect that name alone, while
\* ever_seen_specific_agent and the four records are kept; consecutive
\* user-agent lines accumulate their flags.
C6_NewGroup ==
    [][(EventStep /\ ev'.type = "USER_AGENT") =>
         LET isGlobal   == IsGlobalAgent(ev'.value)
             isSpecific == NamesAgent(matcher.user_agents_, ev'.value)
         IN  /\ matcher'.allow_ = matcher.allow_
             /\ matcher'.disallow_ = matcher.disallow_
             /\ matcher'.ever_seen_specific_agent_ =
                  (matcher.ever_seen_specific_agent_ \/ isSpecific)
             /\ ~matcher'.seen_separator_
             /\ IF matcher.seen_separator_
                THEN /\ matcher'.seen_global_agent_ = isGlobal
                     /\ matcher'.seen_specific_agent_ = isSpecific
                ELSE /\ matcher'.seen_global_agent_ =
                          (matcher.seen_global_agent_ \/ isGlobal)
                     /\ matcher'.seen_specific_agent_ =
                          (matcher.seen_specific_agent_ \/ isSpecific)]_vars

\* C6 witness: "user-agent: *" came right after a directive that matched in a
\* specific group; the specific flag is cleared, the sticky flag and the record
\* are kept.
C6_Witness ==
    /\ pc = "scan"
    /\ ev.type = "USER_AGENT"
    /\ \E h \in hist : h.specific /\ h.line = line_num - 1 /\ h.priority > 0
    /\ matcher.seen_global_agent_
    /\ ~matcher.seen_specific_agent_
    /\ matcher.ever_seen_specific_agent_
    /\ matcher.allow_.specific.priority > 0 \/ matcher.disallow_.specific.priority > 0

\* C7: an Allow or Disallow received while neither seen_global_agent nor
\* seen_specific_agent is set is a complete no-op: the four records and all
\* group flags (seen_separator too), hence the verdict and the matching line,
\* are unchanged.
C7_OutsideGroupNoOp ==
    [][(EventStep /\ ev'.type \in {"ALLOW", "DISALLOW"} /\ ~seen_any_agent(matcher)) =>
         /\ matcher' = matcher
         /\ disallow(matcher') = disallow(matcher)
         /\ matching_line(matcher') = matching_line(matcher)]_vars

\* C7 witness: after a group with a matching directive was closed by the
\* user-agent line of another crawler, a directive whose pattern matches the
\* path was delivered outside any group and left no trace.
C7_Witness ==
    /\ pc = "scan"
    /\ ev.type \in {"ALLOW", "DISALLOW"}
    /\ ~seen_any_agent(matcher)
    /\ ~matcher.seen_separator_
    /\ DirectivePriority(ev.type, matcher.path_, ev.value) > 0
    /\ hist # {}
    /\ \A h \in hist : h.line < line_num - 1

\* C8: sitemap, crawl-delay and unknown-key lines set seen_separator, whether or
\* not a group is open, and change nothing else: the four records,
\* seen_global_agent, seen_specific_agent and ever_seen_specific_agent, hence
\* the verdict, are unchanged.
C8_SeparatorOnly ==
    [][(EventStep /\ ev'.key \in {KeySitemap, KeyCrawlDelay, KeyOther}) =>
         /\ matcher' = [matcher EXCEPT !.seen_separator_ = TRUE]
         /\ disallow(matcher') = disallow(matcher)]_vars

\* C8 witness: a crawl-delay line was delivered with no group open and set
\* seen_separator.
C8_Witness ==
    /\ pc = "scan"
    /\ ev.key = KeyCrawlDelay
    /\ matcher.seen_separator_
    /\ ~seen_any_agent(matcher)

\* C9: a matcher carries no state from one scan to the next: after
\* HandleRobotsStart the four records are "no match" (priority -1, line 0) and
\* the four flags are false, and throughout the scan the reused matcher, its
\* verdict and its matching line equal those of a matcher constructed for this
\* scan.
C9_NoCarryOver ==
    /\ (pc = "scan" /\ line_num = 0) =>
          /\ \A k \in RecordKeys :
                Record(matcher, k[1], k[2]) = [priority |-> -1, line |-> 0]
          /\ ~matcher.seen_global_agent_
          /\ ~matcher.seen_specific_agent_
          /\ ~matcher.ever_seen_specific_agent_
          /\ ~matcher.seen_separator_
    /\ Started =>
          /\ matcher = fresh
          /\ disallow(matcher) = disallow(fresh)
          /\ matching_line(matcher) = matching_line(fresh)
          /\ pc = "idle" => result = Verdict(fresh)

\* C9 witness: a scan ended on a matcher that held records or flags of an
\* earlier scan when it began.
C9_Witness ==
    /\ carried
    /\ pc = "idle"
    /\ result # "none"
    /\ hist # {}

\* The reference semantics of a pattern: anchored at offset 0; "*" matches any
\* run of bytes; a final "$" matches only the end of the path; every other byte,
\* a "$" elsewhere included, matches itself; a path suffix may remain.
RECURSIVE RefMatches(_, _)
RefMatches(path, pattern) ==
    IF pattern = <<>> THEN TRUE
    ELSE IF pattern = <<"$">> THEN path = <<>>
    ELSE IF Head(pattern) = "*"
         THEN \E k \in 0..Len(path) :
                 RefMatches(SubSeq(path, k + 1, Len(path)), Tail(pattern))
         ELSE /\ path # <<>>
              /\ Head(path) = Head(pattern)
              /\ RefMatches(Tail(path), Tail(pattern))

\* C10: Matches(path, pattern) agrees with the reference semantics for every
\* path and pattern over a bounded alphabet.
C10_MatchesReference ==
    mst.ret # "run" =>
        /\ (mst.ret = "true") = RefMatches(mpath, mpattern)
        /\ Matches(mpath, mpattern) = RefMatches(mpath, mpattern)

\* C10 witness: a call that returned false because the final "$" met a path with
\* bytes left, after a "$" inside the pattern matched as a literal.
C10_Witness ==
    /\ mst.ret = "false"
    /\ mpattern = <<"$", "a", "$">>
    /\ mpath = <<"$", "a", "A">>

\* The pattern an Allow is retried with: the value up to and including its last
\* "/", followed by "$".
IndexRetry(value) == Append(SubSeq(value, 1, FindLastSlash(value)), "$")

\* The part of the value from its last "/" starts with "/index.htm".
EndsInIndex(value) ==
    /\ FindLastSlash(value) # 0
    /\ starts_with(SubSeq(value, FindLastSlash(value), Len(value)), IndexHtm)

\* C11: inside an open group, an Allow whose pattern does not match the path
\* and whose part from the last "/" starts with "/index.htm" is retried once
\* with "<dir>/$": the allow record of the open group is updated with the
\* length of that pattern exactly when the path is matched by it (for a
\* directory without wildcards: when the path is that directory), and is left
\* alone otherwise; a Disallow with such a pattern changes no record.
C11_IndexRetry ==
    [][(EventStep /\ seen_any_agent(matcher) /\ ev'.type \in {"ALLOW", "DISALLOW"}
          /\ EndsInIndex(ev'.value) /\ ~RefMatches(matcher.path_, ev'.value)) =>
        LET retry == IndexRetry(ev'.value)
            s     == matcher.seen_specific_agent_
            old   == Record(matcher, "ALLOW", s)
        IN  /\ \A k \in RecordKeys :
                  (k # <<"ALLOW", s>> \/ ev'.type = "DISALLOW") =>
                      Record(matcher', k[1], k[2]) = Record(matcher, k[1], k[2])
            /\ ev'.type = "ALLOW" =>
                  /\ RefMatches(matcher.path_, retry)
                        = (matcher.path_ = SubSeq(ev'.value, 1, FindLastSlash(ev'.value)))
                  /\ Record(matcher', "ALLOW", s) =
                        IF RefMatches(matcher.path_, retry) /\ old.priority < Len(retry)
                        THEN [priority |-> Len(retry), line |-> line_num']
                        ELSE old
            /\ matcher'.seen_separator_]_vars

\* C11 witness: "allow: /index.htm" inside an open group for the path "/": the
\* record holds the retried pattern "/$" (priority 2) and this line.
C11_Witness ==
    /\ pc = "scan"
    /\ ev.type = "ALLOW"
    /\ ev.value = IndexHtm
    /\ matcher.path_ = <<"/">>
    /\ \E s \in BOOLEAN :
          Record(matcher, "ALLOW", s) = [priority |-> 2, line |-> line_num]

\* C12: inside an open group an Allow or Disallow with an empty pattern matches
\* every path with priority 0: its record takes priority 0 and the line if it
\* held no match, keeps what it holds otherwise, and the verdict is the same
\* before and after the directive.
C12_EmptyPattern ==
    [][(EventStep /\ seen_any_agent(matcher) /\ ev'.type \in {"ALLOW", "DISALLOW"}
          /\ ev'.value = <<>>) =>
        LET s   == matcher.seen_specific_agent_
            old == Record(matcher, ev'.type, s)
        IN  /\ Record(matcher', ev'.type, s) =
                  IF old.priority = -1
                  THEN [priority |-> 0, line |-> line_num']
                  ELSE old
            /\ \A k \in RecordKeys :
                  k # <<ev'.type, s>> =>
                      Record(matcher', k[1], k[2]) = Record(matcher, k[1], k[2])
            /\ disallow(matcher') = disallow(matcher)]_vars

\* C12 witness: the scan ended allowed although the only directive that matched
\* in the deciding groups is a Disallow with an empty pattern, which the
\* disallow record holds with priority 0.
C12_Witness ==
    /\ pc = "idle"
    /\ result = "allowed"
    /\ \E h \in hist : h.specific = Deciding
    /\ \A h \in hist : h.specific = Deciding => (h.type = "DISALLOW" /\ h.priority = 0)
    /\ Record(matcher, "DISALLOW", Deciding).priority = 0
    /\ Record(matcher, "DISALLOW", Deciding).line >= 1

\* The reference reading of a document.  The bytes of the byte order mark the
\* document begins with, as many of the three as are there in order, do not
\* belong to its text.
BomPrefixLen(doc) ==
    CHOOSE k \in 0..Len(utf_bom) :
        /\ k <= Len(doc)
        /\ \A i \in 1..k : doc[i] = utf_bom[i]
        /\ ~(k < Len(utf_bom) /\ k < Len(doc) /\ doc[k + 1] = utf_bom[k + 1])

DocText(doc) == SubSeq(doc, BomPrefixLen(doc) + 1, Len(doc))

IsTerminator(ch) == ch \in {"\n", "\r"}

\* The segments the terminators LF, CR and CR LF cut a text into, the last,
\* unterminated one included.
RECURSIVE RefSplit(_)
RefSplit(text) ==
    IF \A i \in 1..Len(text) : ~IsTerminator(text[i]) THEN <<text>>
    ELSE LET i == CHOOSE n \in 1..Len(text) :
                     IsTerminator(text[n]) /\ \A j \in 1..(n - 1) : ~IsTerminator(text[j])
             w == IF text[i] = "\r" /\ i < Len(text) /\ text[i + 1] = "\n" THEN 2 ELSE 1
         IN  <<SubSeq(text, 1, i - 1)>> \o RefSplit(SubSeq(text, i + w, Len(text)))

\* The first kMaxLineLen - 1 bytes of a line.
Kept(l) == SubSeq(l, 1, IF Len(l) < kMaxLineLen - 1 THEN Len(l) ELSE kMaxLineLen - 1)

\* The events of the lines n.. of a sequence of lines: one for each line with
\* a key and a value, with the number of the line.
RECURSIVE RefEvents(_, _)
RefEvents(lines, n) ==
    IF n > Len(lines) THEN <<>>
    ELSE EmitLine(<<>>, n, Kept(lines[n])) \o RefEvents(lines, n + 1)

IsPrefix(s, t) == Len(s) <= Len(t) /\ s = SubSeq(t, 1, Len(s))

\* The directive events among the calls received so far.
Events == SelectSeq(calls, LAMBDA c : c.hook \notin {"HandleRobotsStart", "HandleRobotsEnd"})

Count(hook) == Cardinality({i \in 1..Len(calls) : calls[i].hook = hook})

\* C13: HandleRobotsStart is called exactly once, before any event, and
\* HandleRobotsEnd exactly once, after all of them; the events are, in order,
\* one for each line with a usable key and value and none for the others, with
\* strictly increasing line numbers that count from 1 every segment the
\* terminators delimit, the last unterminated one included.
C13_EventOrder ==
    /\ parser.pc = "start" => calls = <<>>
    /\ parser.pc # "start" => (calls[1] = StartCall /\ Count("HandleRobotsStart") = 1)
    /\ parser.pc # "done" => Count("HandleRobotsEnd") = 0
    /\ parser.pc = "done" =>
          /\ calls[Len(calls)] = EndCall
          /\ Count("HandleRobotsEnd") = 1
          /\ Events = RefEvents(RefSplit(DocText(robots_body)), 1)
          /\ parser.line_num = Len(RefSplit(DocText(robots_body)))
    /\ IsPrefix(Events, RefEvents(RefSplit(DocText(robots_body)), 1))
    /\ \A i, j \in 1..Len(Events) :
          i < j => (1 <= Events[i].line /\ Events[i].line < Events[j].line)
    /\ \A i \in 1..Len(Events) : Events[i].line <= parser.line_num

\* C13 witness: Parse has returned for a document of three lines; the first
\* and the last gave an event, numbered 1 and 3, the second, empty, gave none,
\* and the last has no terminator.
C13_Witness ==
    /\ parser.pc = "done"
    /\ robots_body # <<>>
    /\ ~IsTerminator(robots_body[Len(robots_body)])
    /\ parser.line_num = 3
    /\ Len(Events) = 2
    /\ Events[1].line = 1
    /\ Events[2].line = 3

\* A document with every CR LF and every CR that is not followed by LF
\* replaced by LF.
RECURSIVE LfOnly(_)
LfOnly(doc) ==
    IF doc = <<>> THEN <<>>
    ELSE IF Head(doc) = "\r"
         THEN IF Len(doc) >= 2 /\ doc[2] = "\n"
              THEN <<"\n">> \o LfOnly(SubSeq(doc, 3, Len(doc)))
              ELSE <<"\n">> \o LfOnly(Tail(doc))
         ELSE <<Head(doc)>> \o LfOnly(Tail(doc))

\* Every LF of the document is the second byte of a CR LF: the document is an
\* LF-only document with each terminator replaced by CR LF or by CR.
NoLfAlone(doc) ==
    \A i \in 1..Len(doc) : doc[i] = "\n" => (i > 1 /\ doc[i - 1] = "\r")

\* C14: CR LF is one terminator: a document gives the calls, with the same
\* hooks, values and line numbers, of the LF-only document it is made from by
\* replacing each terminator with CR LF or with a bare CR; an empty line gives
\* no event.
C14_CrLfEquivalence ==
    parser.pc = "done" =>
        /\ NoLfAlone(robots_body) => calls = Parse(LfOnly(robots_body))
        /\ calls = Parse(LfOnly(robots_body))
        /\ \A i \in 1..Len(Events) :
              RefSplit(DocText(robots_body))[Events[i].line] # <<>>

\* C14 witness: Parse has returned for a document whose first line ends with a
\* bare CR and whose second, empty line ends with CR LF; the event of the
\* third line has the number 3.
C14_Witness ==
    /\ parser.pc = "done"
    /\ Len(robots_body) >= 3
    /\ NoLfAlone(robots_body)
    /\ \E i \in 1..(Len(robots_body) - 2) :
          /\ robots_body[i] = "\r"
          /\ robots_body[i + 1] = "\r"
          /\ robots_body[i + 2] = "\n"
    /\ parser.line_num = 3
    /\ Len(Events) >= 1
    /\ Events[Len(Events)].line = 3

\* The lines of the part of the document the loop has read.
LinesRead == RefSplit(DocText(SubSeq(robots_body, 1, parser.pos - 1)))

\* C15: line_pos never passes line_buffer_end (the assertion of the loop): of
\* a line only the first kMaxLineLen - 1 bytes are in the buffer, the rest up
\* to the terminator is dropped; an oversized line advances the line counter
\* by one like any other, so the lines after it have their numbers, and it
\* gives the event of its kept bytes and no other.
C15_LineCap ==
    /\ Len(parser.line) <= kMaxLineLen - 1
    /\ parser.pc = "loop" =>
          /\ parser.line = Kept(LinesRead[Len(LinesRead)])
          /\ parser.line_num = Len(LinesRead) - 1
          /\ Events = RefEvents(SubSeq(LinesRead, 1, Len(LinesRead) - 1), 1)
    /\ parser.pc = "done" =>
          /\ parser.line_num = Len(LinesRead)
          /\ Events = RefEvents(LinesRead, 1)

\* C15 witness: Parse has returned for a document whose first line is longer
\* than the buffer and has a second line; the events are the one of the bytes
\* kept of line 1 and the one of line 2.
C15_Witness ==
    /\ parser.pc = "done"
    /\ Len(LinesRead) = 2
    /\ Len(LinesRead[1]) > kMaxLineLen - 1
    /\ Len(LinesRead[2]) <= kMaxLineLen - 1
    /\ Len(Events) = 2
    /\ Events[1].line = 1
    /\ Events[1] = EmitLine(<<>>, 1, Kept(LinesRead[1]))[1]
    /\ Events[2].line = 2

\* The part of the document the loop has read.
Consumed == SubSeq(robots_body, 1, parser.pos - 1)

\* The text of a document if only a byte order mark present in full is not
\* part of it.
FullBomText(doc) ==
    IF Len(doc) >= Len(utf_bom) /\ SubSeq(doc, 1, Len(utf_bom)) = utf_bom
    THEN SubSeq(doc, Len(utf_bom) + 1, Len(doc))
    ELSE doc

\* C16 as stated: the byte order mark is removed only when all three bytes are
\* there; a document that begins with EF or EF BB and then other bytes keeps
\* them in its first line.
C16_Original ==
    parser.pc = "done" =>
        /\ Events = RefEvents(RefSplit(FullBomText(robots_body)), 1)
        /\ parser.line_num = Len(RefSplit(FullBomText(robots_body)))

\* C16, amended: the bytes skipped are the leading bytes of the document that
\* match EF BB BF in order, all three or only the first or the first two; the
\* matching ends with the first byte that does not match, and every byte after
\* that, a byte of the mark included, belongs to the text.
C16_BomPrefix ==
    /\ parser.pc = "loop" =>
          /\ parser.bom_pos = IF BomPrefixLen(Consumed) = Len(Consumed)
                              THEN Len(Consumed)
                              ELSE Len(utf_bom)
          /\ Len(LinesRead) = 1 =>
                parser.line = Kept(SubSeq(Consumed, BomPrefixLen(Consumed) + 1,
                                          Len(Consumed)))
    /\ parser.pc = "done" =>
          /\ Events = RefEvents(RefSplit(DocText(robots_body)), 1)
          /\ parser.line_num = Len(RefSplit(DocText(robots_body)))

\* C16 witness: Parse has returned for the document EF BB "a:"; the two bytes
\* of the mark were skipped and the first line gave the event of the key "a".
C16_Witness ==
    /\ parser.pc = "done"
    /\ robots_body = <<"xEF", "xBB", "a", ":">>
    /\ Len(Events) = 1
    /\ Events[1].line = 1
    /\ Events[1].key = <<"a">>

IsBlank(ch) == ch \in {" ", "\t"}

\* The bytes of s before the first c.
RECURSIVE Before(_, _)
Before(s, c) ==
    IF s = <<>> \/ Head(s) = c THEN <<>> ELSE <<Head(s)>> \o Before(Tail(s), c)

\* The bytes of s after the first c.
RECURSIVE After(_, _)
After(s, c) ==
    IF s = <<>> THEN <<>> ELSE IF Head(s) = c THEN Tail(s) ELSE After(Tail(s), c)

RECURSIVE Unblank(_)
Unblank(s) ==
    IF s = <<>> THEN s
    ELSE IF IsBlank(Head(s)) THEN Unblank(Tail(s))
    ELSE IF IsBlank(s[Len(s)]) THEN Unblank(SubSeq(s, 1, Len(s) - 1))
    ELSE s

\* The bytes of s before its first blank or tab.
RECURSIVE Word(_)
Word(s) ==
    IF s = <<>> \/ IsBlank(Head(s)) THEN <<>> ELSE <<Head(s)>> \o Word(Tail(s))

\* The maximal runs of bytes other than blank and tab.
RECURSIVE Tokens(_)
Tokens(s) ==
    IF s = <<>> THEN <<>>
    ELSE IF IsBlank(Head(s)) THEN Tokens(Tail(s))
    ELSE <<Word(s)>> \o Tokens(SubSeq(s, Len(Word(s)) + 1, Len(s)))

\* C17: the line without its comment (everything from the first "#") and
\* trimmed is split at its first ":"; without a colon it is split at its first
\* run of blanks and tabs only if it has exactly two tokens; a line without
\* colon and with one token or with three or more, and a line whose key is
\* empty, gives no key and value and no event.
C17_KeyValueSplit ==
    ret # <<>> =>
        LET r == ret[1]
            t == Unblank(Before(arg, "#"))
            k == Unblank(Before(t, ":"))
            v == Unblank(After(t, ":"))
        IN  /\ IF \E i \in 1..Len(t) : t[i] = ":"
               THEN /\ r.ok = (k # <<>>)
                    /\ r.ok => (r.key = k /\ r.value = v)
               ELSE /\ r.ok = (Len(Tokens(t)) = 2)
                    /\ r.ok => (r.key = Tokens(t)[1] /\ r.value = Tokens(t)[2])
            /\ r.ok = (Len(EmitLine(<<>>, 1, arg)) = 1)

\* C17 witness: a line without colon, two tokens with a blank and a tab
\* between them and a comment after them, was split into key and value.
C17_Witness ==
    /\ ret # <<>>
    /\ arg = <<"a", " ", "\t", "a", "#">>
    /\ ret[1] = [ok |-> TRUE, key |-> <<"a">>, value |-> <<"a">>]

\* The key of the line "<key>:1".
KeyOfArg == Before(arg, ":")

\* The spellings of the crawl-delay key: the key starts with one of them, in
\* any case.
CrawlDelaySpelling(key) ==
    \E p \in { KeyCrawlDelay,
               <<"c", "r", "a", "w", "l", "d", "e", "l", "a", "y">>,
               <<"c", "r", "a", "w", "l", " ", "d", "e", "l", "a", "y">> } :
        /\ Len(key) >= Len(p)
        /\ ToLowerStr(SubSeq(key, 1, Len(p))) = p

\* C18: a key that starts, in any case, with "crawl-delay", "crawldelay" or
\* "crawl delay" is classified CrawlDelay and its line is delivered through
\* HandleCrawlDelay, not through HandleUnknownAction.
C18_CrawlDelayHook ==
    (ret # <<>> /\ CrawlDelaySpelling(KeyOfArg)) =>
        /\ KeyParse(KeyOfArg) = "CRAWL_DELAY"
        /\ Len(ret[1]) = 1
        /\ ret[1][1].hook = "HandleCrawlDelay"

\* C18 witness: the line "crawl-delay:1" has been emitted: one call, of
\* HandleUnknownAction, with the key.
C18_Witness ==
    /\ ret # <<>>
    /\ arg = KeyCrawlDelay \o <<":", "1">>
    /\ KeyIsCrawlDelay(KeyOfArg)
    /\ ret[1] = <<Call("HandleUnknownAction", 1, KeyCrawlDelay, <<"1">>)>>

\* C19: the canonicalizer is idempotent: called on its own output it gives
\* that output again.
C19_Idempotent ==
    Len(ret) = 2 => ret[2].dst = ret[1].dst

\* C19 witness: both calls have returned for a src with a lower-case escape
\* and a byte with the high bit set; the first call changed both.
C19_Witness ==
    /\ Len(ret) = 2
    /\ arg = <<"%", "a", "a", "xC3">>
    /\ ret[1].dst = <<"%", "A", "A", "%", "C", "3">>

\* Some escape %XX of src, read from position i on as both loops read them,
\* holds a lower-case hex digit.
RECURSIVE LowerInEscape(_, _)
LowerInEscape(src, i) ==
    IF i > Len(src) THEN FALSE
    ELSE IF i + 2 <= Len(src) /\ src[i] = "%"
            /\ src[i + 1] \in XDigitSet /\ src[i + 2] \in XDigitSet
         THEN \/ src[i + 1] \in LowerSet
              \/ src[i + 2] \in LowerSet
              \/ LowerInEscape(src, i + 3)
         ELSE LowerInEscape(src, i + 1)

\* C20: for a src with no byte with the high bit set and no lower-case hex
\* digit inside an escape, MaybeEscapePattern returns false and *dst is src:
\* nothing is allocated.
C20_NoAllocation ==
    (ret # <<>> /\ (\A i \in 1..Len(arg) : ~HighBit(arg[i])) /\ ~LowerInEscape(arg, 1)) =>
        /\ ~ret[1].allocated
        /\ ret[1].dst = arg

\* C20 witness: the call has returned for "/%2F", which has one escape, in
\* upper case: it returned true, with a new string equal to src.
C20_Witness ==
    /\ ret # <<>>
    /\ arg = <<"/", "%", "2", "F">>
    /\ ret[1].allocated
    /\ ret[1].dst = arg

\* The directives that matched in the groups that decide the verdict.
DecidingHist == {h \in hist : h.specific = Deciding}

\* C21: matching_line() is the line of the higher-priority record, allow or
\* disallow, of the deciding groups: the specific records if a user-agent line
\* named an agent of the caller, the global records otherwise; it is the line
\* of a directive of those groups that matched with the largest priority of
\* all of them, and 0 when none matched.
C21_MatchingLine ==
    Started =>
        LET A  == Record(matcher, "ALLOW", Deciding)
            D  == Record(matcher, "DISALLOW", Deciding)
            ml == matching_line(matcher)
        IN  /\ D.priority > A.priority => ml = D.line
            /\ A.priority > D.priority => ml = A.line
            /\ ml \in {A.line, D.line}
            /\ IF DecidingHist = {} THEN ml = 0
               ELSE \E h \in DecidingHist :
                       /\ h.line = ml
                       /\ \A g \in DecidingHist : g.priority <= h.priority

\* C21 witness: a scan ended in which an agent of the caller was named, a
\* global directive matched with a larger priority than any specific one, and
\* matching_line() is the line of a specific directive.
C21_Witness ==
    /\ pc = "idle"
    /\ result # "none"
    /\ named
    /\ \E g \in hist, h \in hist :
          /\ ~g.specific
          /\ h.specific
          /\ g.priority > h.priority
          /\ h.line = matching_line(matcher)
    /\ \A g \in hist : ~g.specific => g.line # matching_line(matcher)

\* The priority with which a directive matches the path by the reference
\* semantics of patterns, -1 if it does not.
RefPriority(type, path, value) ==
    IF RefMatches(path, value) THEN Len(value)
    ELSE IF type = "ALLOW" /\ EndsInIndex(value) /\ RefMatches(path, IndexRetry(value))
    THEN Len(IndexRetry(value))
    ELSE -1

\* C22: in a group opened by a "*" line and by a line naming an agent of the
\* caller, an Allow or Disallow leaves both global records as they are; if it
\* matches the path with a priority above that of the specific record of its
\* kind, that record takes the priority and the line.
C22_BothAgentsGroup ==
    [][(EventStep /\ matcher.seen_global_agent_ /\ matcher.seen_specific_agent_
          /\ ev'.type \in {"ALLOW", "DISALLOW"}) =>
        LET prio == RefPriority(ev'.type, matcher.path_, ev'.value)
            old  == Record(matcher, ev'.type, TRUE)
        IN  /\ matcher'.allow_.global = matcher.allow_.global
            /\ matcher'.disallow_.global = matcher.disallow_.global
            /\ Record(matcher', ev'.type, TRUE) =
                  IF prio > old.priority
                  THEN [priority |-> prio, line |-> line_num']
                  ELSE old]_vars

\* C22 witness: after "user-agent: *" and a line naming an agent of the caller,
\* a Disallow matched: the specific disallow record holds its line and both
\* global records hold no match.
C22_Witness ==
    /\ pc = "scan"
    /\ matcher.seen_global_agent_
    /\ matcher.seen_specific_agent_
    /\ ev.type = "DISALLOW"
    /\ matcher.disallow_.specific.priority > 0
    /\ matcher.disallow_.specific.line = line_num
    /\ matcher.disallow_.global = NoMatch
    /\ matcher.allow_.global = NoMatch

\* C23: when the verdict is disallowed, matching_line() is at least 1 and is
\* the line of a Disallow with a non-empty pattern that matched the path in the
\* groups that decide for the caller; it is not 0 and not the line of an Allow.
C23_DisallowedLine ==
    (Started /\ disallow(matcher)) =>
        /\ matching_line(matcher) >= 1
        /\ \E h \in DecidingHist :
              /\ h.type = "DISALLOW"
              /\ h.priority > 0
              /\ h.line = matching_line(matcher)
        /\ \A h \in hist : h.type = "ALLOW" => h.line # matching_line(matcher)
        /\ pc = "idle" => result = "disallowed"

\* C23 witness: a scan ended disallowed; in the deciding groups an Allow
\* matched too, with a smaller priority, before the Disallow whose line
\* matching_line() reports.
C23_Witness ==
    /\ pc = "idle"
    /\ result = "disallowed"
    /\ \E a \in DecidingHist, d \in DecidingHist :
          /\ a.type = "ALLOW" /\ d.type = "DISALLOW"
          /\ 0 < a.priority /\ a.priority < d.priority
          /\ a.line < d.line
          /\ d.line = matching_line(matcher)

\* C24: at the start and at the end of every iteration of the loop over the
\* pattern, pos[0..numpos-1] is not empty, strictly increasing and within
\* 0..pathlen, so numpos <= pathlen + 1, and every slot of pos the next
\* iteration reads or writes is one of the pathlen + 1 slots of the array; the
\* list is empty only where Matches returns false at once.
C24_PosInvariant ==
    LET pathlen == Len(mpath)
    IN  /\ DOMAIN mst.pos = 0..pathlen
        /\ mst.numpos = 0 => mst.ret = "false"
        /\ mst.numpos # 0 =>
              /\ 1 <= mst.numpos /\ mst.numpos <= pathlen + 1
              /\ \A i \in 0..(mst.numpos - 1) :
                    0 <= mst.pos[i] /\ mst.pos[i] <= pathlen
              /\ \A i \in 1..(mst.numpos - 1) : mst.pos[i - 1] < mst.pos[i]
        /\ mst.ret = "run" =>
              /\ mst.pat \in 1..Len(mpattern)
              /\ mpattern[mst.pat] = "*" =>
                    (pathlen - mst.pos[0] + 1) \in 1..(pathlen + 1)
              /\ mpattern[mst.pat] # "*" => (mst.numpos - 1) \in 0..pathlen

\* C24 witness: for the path "aAa" and the pattern "*a*" the loop is about to
\* read the second "*": the first filled all four slots and the literal "a"
\* kept the offsets 1 and 3.
C24_Witness ==
    /\ mpath = <<"a", "A", "a">>
    /\ mpattern = <<"*", "a", "*">>
    /\ mst.ret = "run"
    /\ mst.pat = 3
    /\ mst.numpos = 2
    /\ mst.pos[0] = 1
    /\ mst.pos[1] = 3

=============================================================================
